---------------------------- MODULE Spec2Model ----------------------------
(***************************************************************************)
(* Transition distributions of the weak-limit HDP-HMM family               *)
(* (internals/transitions.py): the base model, the left-to-right, the      *)
(* semi-Markov, the sticky and the concentration-coupled variants.         *)
(*                                                                         *)
(* Real numbers are rationals <<num, den>>; the rounding of the row        *)
(* normalisations in doubles is a choice of the error of each row sum.     *)
(* A random primitive is                                                   *)
(* the set of values it can return; a method is the set of object states   *)
(* it can leave.  An exception is the field err of the object state: the   *)
(* steps after the raising one are skipped and what was stored before it   *)
(* stays stored.  State indices are 0..state_dim-1 as in the source.       *)
(***************************************************************************)
EXTENDS Integers, Sequences, FiniteSets, TLC

(* ------------------------------ bounds -------------------------------- *)

\* longest input state sequence
MaxLen == 3
\* longest input state sequence of the left-to-right sweeps
MaxLenLTR == 2
\* most sequences in one input list
MaxSeqs == 1
\* largest value one geometric draw returns in the model
MaxGeom == 2
\* the Gamma and Dirichlet draws are the vectors (1, 1+s, 1+2s, ...), s <= MaxSkew
MaxSkew == 0
\* most rows of one normalisation whose floating-point sum is not exactly 1
MaxRounded == 1

\* the truncation level L (constructor argument state_dim)
state_dim == 2

I == 0 .. (state_dim - 1)

\* Python's None, and a field that was never assigned
None == <<>>

(* ----------------------------- rationals ------------------------------ *)

Abs(x) == IF x < 0 THEN -x ELSE x

RECURSIVE GCD(_, _)
GCD(a, b) == IF b = 0 THEN a ELSE GCD(b, a % b)

\* the rational n/d in lowest terms with a positive denominator
R(n, d) ==
  LET g == GCD(Abs(n), Abs(d))
      s == IF d < 0 THEN -1 ELSE 1
  IN  <<(s * n) \div g, (s * d) \div g>>

RInt(n) == <<n, 1>>
RAdd(x, y) == R(x[1] * y[2] + y[1] * x[2], x[2] * y[2])
RSub(x, y) == R(x[1] * y[2] - y[1] * x[2], x[2] * y[2])
RMul(x, y) == R(x[1] * y[1], x[2] * y[2])
RDiv(x, y) == R(x[1] * y[2], x[2] * y[1])
RLt(x, y) == x[1] * y[2] < y[1] * x[2]
RLe(x, y) == x[1] * y[2] <= y[1] * x[2]
RZero == <<0, 1>>
ROne == <<1, 1>>

\* the smoothing constant 1e-2 of _resample_beta and _resample_A
Floor == R(1, 100)

(* ------------------------- vectors and matrices ----------------------- *)

RECURSIVE SumUpTo(_, _)
SumUpTo(f, n) == IF n < 0 THEN 0 ELSE f[n] + SumUpTo(f, n - 1)

RECURSIVE RSumUpTo(_, _)
RSumUpTo(f, n) == IF n < 0 THEN RZero ELSE RAdd(f[n], RSumUpTo(f, n - 1))

\* trans_counts.sum(1)[i]
RowSum(M, i) == SumUpTo(M[i], state_dim - 1)
\* m.sum(0)[j]
ColSum(M, j) == SumUpTo([i \in I |-> M[i][j]], state_dim - 1)
\* m.sum()
Total(M) == SumUpTo([i \in I |-> RowSum(M, i)], state_dim - 1)
RRowSum(M, i) == RSumUpTo(M[i], state_dim - 1)

Zeros == [i \in I |-> [j \in I |-> 0]]

\* an integer matrix as the floating-point matrix numpy promotes it to
AsReal(M) == [i \in I |-> [j \in I |-> RInt(M[i][j])]]

\* np.triu(M)
triu(M) == [i \in I |-> [j \in I |-> IF j >= i THEN M[i][j] ELSE RZero]]

(* --------------------------- random primitives ------------------------ *)
(* Each primitive is the set of values the library call can return.  A    *)
(* call that raises returns the marker Raised.                             *)

Raised == 0 - 1

\* np.random.rand() < p: rand() lies in [0, 1)
rand_lt(p) ==
  IF RLe(ROne, p) THEN {TRUE}
  ELSE IF RLe(p, RZero) THEN {FALSE}
  ELSE BOOLEAN

\* crp_tables with the running index started at 1 instead of 0
RECURSIVE crp_tables_from_one(_, _)
crp_tables_from_one(ab, val) ==
  IF val = 0 THEN {0}
  ELSE LET hit == rand_lt(RDiv(ab, RAdd(RInt(val), ab)))
       IN  {s + (IF b THEN 1 ELSE 0) :
              s \in crp_tables_from_one(ab, val - 1), b \in hit}

\* (np.random.rand(val) < ab/(np.arange(val) + ab)).sum(): the number of
\* successes among the trials k = 0 .. val-1, trial k with probability ab/(k + ab)
RECURSIVE crp_tables(_, _)
crp_tables(ab, val) ==
  IF val = 0 THEN {0}
  ELSE LET k == val - 1
           hit == rand_lt(RDiv(ab, RAdd(RInt(k), ab)))
       IN  {s + (IF b THEN 1 ELSE 0) : s \in crp_tables(ab, k), b \in hit}

\* one np.random.geometric(p) draw, p in (0, 1]: the number of the first success
geometric(p) == IF p = ROne THEN {1} ELSE 1 .. MaxGeom

\* np.random.geometric(p, size=n).sum() as it reaches an int32 count matrix,
\* in the numpy this Python 2 module runs on (up to 1.16).  p is checked
\* before the size is looked at: p < 0 or p > 1 raises ValueError whatever n
\* is.  p = 0 passes the check; every draw is then (long)ceil(-inf), the
\* 64-bit minimum, and whatever their number the low 32 bits of the sum are
\* 0, which is what the in-place addition to the int32 matrix keeps.
RECURSIVE geometric_sum(_, _)
geometric_sum(p, n) ==
  IF RLt(p, RZero) \/ RLt(ROne, p) THEN {Raised}
  ELSE IF p = RZero THEN {0}
  ELSE IF n = 0 THEN {0}
  ELSE {s + g : s \in geometric_sum(p, n - 1), g \in geometric(p)}

\* np.random.binomial(n, p), p in [0, 1]
binomial(n, p) ==
  IF p = ROne THEN {n}
  ELSE IF p = RZero THEN {0}
  ELSE 0 .. n

\* np.random.multinomial(tot, pvals) over the columns 0 .. i-1: every split of
\* tot that gives nothing to a column of probability 0.  With no column
\* (i = 0) the draw loop does not run and the result is the empty vector
\* whatever tot is.
multinomial(tot, pvals, i) ==
  IF i = 0 THEN {<<>>}
  ELSE LET cols == 0 .. (i - 1)
       IN  {c \in [cols -> 0 .. tot] :
              /\ SumUpTo(c, i - 1) = tot
              /\ \A j \in cols : pvals[j] = RZero => c[j] = 0}

\* the vectors the model draws: (1, 1+s, 1+2s, ...) for s = 0 .. MaxSkew
DrawRows == {[j \in I |-> 1 + j * s] : s \in 0 .. MaxSkew}

\* a vector of positive numbers divided by its sum
Normalized(v) ==
  LET tot == SumUpTo(v, state_dim - 1) IN [j \in I |-> R(v[j], tot)]

\* np.random.dirichlet(param), every param[j] > 0: a point of the open simplex
dirichlet(param) == {Normalized(v) : v \in DrawRows}

\* stats.gamma.rvs(shape), every shape[i][j] > 0: one positive variate per cell
gamma_rvs(shape) == [I -> {[j \in I |-> RInt(v[j])] : v \in DrawRows}]

\* np.random.beta(a, b): a point of (0, 1)
RhoVals == {R(1, 4), R(1, 2)}
beta_rvs(a, b) == RhoVals

\* the concentration a DirGamma object holds after __init__ or resample:
\* alpha_obj's, and gamma_obj's
ConcVals == {R(1, 2), ROne}
GammaConcVals == {ROne}

\* rle(states)[0]: the sequence with every run of equal states collapsed to one
RECURSIVE rle(_)
rle(states) ==
  IF Len(states) <= 1 THEN states
  ELSE LET rest == rle(Tail(states))
       IN  IF Head(states) = Head(rest) THEN rest ELSE <<Head(states)>> \o rest

(* ------------------------------- state -------------------------------- *)

VARIABLES
  phase,          \* "new": no object yet; "live"; "dead": the constructor raised
  variant,        \* the class of the object
  alpha, gamma, kappa, rho,        \* hyperparameters (None: not an attribute)
  alpha_conc, gamma_conc,          \* alpha_obj.concentration, gamma_obj.concentration
  beta, A, fullA,                  \* parameters
  trans_counts, m, newm,           \* statistics kept from the last sweep
  \* what the last call did (bookkeeping of the model, not attributes)
  op,             \* "none", "construct", "construct_seeded", "assign_fullA", "resample"
  err,            \* the exception the last call raised, or "none"
  wrote,          \* the attributes the last call has written
  counted,        \* what HDPHMMTransitions._count_transitions returned
  m_read_beta,    \* whether _get_m read self.beta
  binom,          \* the np.random.binomial draw of the sticky _resample_beta
  beta_m,         \* the argument of HDPHMMTransitions._resample_beta
  A_arg,          \* the argument of HDPHMMTransitions._resample_A
  rvs,            \* the variates stats.gamma.rvs returned
  conc_saw        \* what ConcentrationResampling.resample read, and wrote at that moment

vars == <<phase, variant, alpha, gamma, kappa, rho, alpha_conc, gamma_conc,
          beta, A, fullA, trans_counts, m, newm, op, err, wrote, counted,
          m_read_beta, binom, beta_m, A_arg, rvs, conc_saw>>

\* the object as one record
Self ==
  [variant |-> variant, alpha |-> alpha, gamma |-> gamma, kappa |-> kappa,
   rho |-> rho, alpha_conc |-> alpha_conc, gamma_conc |-> gamma_conc,
   beta |-> beta, A |-> A, fullA |-> fullA, trans_counts |-> trans_counts,
   m |-> m, newm |-> newm, op |-> op, err |-> err, wrote |-> wrote,
   counted |-> counted, m_read_beta |-> m_read_beta, binom |-> binom,
   beta_m |-> beta_m, A_arg |-> A_arg, rvs |-> rvs,
   conc_saw |-> conc_saw]

\* an object before __init__ has assigned anything
Blank(v) ==
  [variant |-> v, alpha |-> None, gamma |-> None, kappa |-> None,
   rho |-> None, alpha_conc |-> None, gamma_conc |-> None,
   beta |-> None, A |-> None, fullA |-> None, trans_counts |-> None,
   m |-> None, newm |-> None, op |-> "none", err |-> "none", wrote |-> {},
   counted |-> None, m_read_beta |-> FALSE, binom |-> None,
   beta_m |-> None, A_arg |-> None, rvs |-> None,
   conc_saw |-> None]

\* the bookkeeping at the start of a call
Enter(o, name) ==
  [o EXCEPT !.op = name, !.err = "none", !.wrote = {}, !.counted = None,
            !.m_read_beta = FALSE, !.binom = None, !.beta_m = None,
            !.A_arg = None, !.rvs = None, !.conc_saw = None]

Raise(o, e) == [o EXCEPT !.err = e]

\* the outcomes of step F on each outcome in S; a raised exception skips F
Then(S, F(_)) == UNION {IF o.err = "none" THEN F(o) ELSE {o} : o \in S}

Variants == {"HMM", "HMMConc", "LTR", "HSMM", "HSMMConc", "Sticky",
             "StickyConc", "StickyLTR"}
IsLTR(v) == v \in {"LTR", "StickyLTR"}
IsHSMM(v) == v \in {"HSMM", "HSMMConc"}
IsSticky(v) == v \in {"Sticky", "StickyConc", "StickyLTR"}
IsConc(v) == v \in {"HMMConc", "HSMMConc", "StickyConc"}

\* the functions that pick one element of F[x] for every x
Product(F) ==
  {f \in [DOMAIN F -> UNION {F[x] : x \in DOMAIN F}] :
     \A x \in DOMAIN F : f[x] \in F[x]}

(* --------------------------- HDPHMMTransitions ------------------------ *)

\* the positions <<sequence, index>> of the adjacent pairs of the sequences of
\* length >= 2
Pairs(states_list) ==
  UNION {{<<q, idx>> : idx \in 1 .. (Len(states_list[q]) - 1)} :
           q \in {n \in 1 .. Len(states_list) : Len(states_list[n]) >= 2}}

\* the matrix _count_transitions builds
CountMatrix(states_list) ==
  [i \in I |-> [j \in I |->
     Cardinality({pr \in Pairs(states_list) :
                    /\ states_list[pr[1]][pr[2]] = i
                    /\ states_list[pr[1]][pr[2] + 1] = j})]]

HMM_count_transitions(o, states_list) ==
  LET tc == CountMatrix(states_list)
  IN  {[o EXCEPT !.trans_counts = tc, !.counted = tc,
                 !.wrote = @ \cup {"trans_counts"}]}

\* the table counts of one cell; 0/(0 + 0) at k = 0 is an invalid operation,
\* which np.seterr(invalid='raise') turns into FloatingPointError
TableCell(ab, val) ==
  IF val > 0 /\ ab = RZero THEN {Raised} ELSE crp_tables(ab, val)

HMM_get_m(o, tc) ==
  IF tc = Zeros
    THEN {[o EXCEPT !.m = Zeros, !.wrote = @ \cup {"m"}]}
  ELSE IF o.beta = None
    THEN {Raise([o EXCEPT !.m_read_beta = TRUE], "AttributeError")}
  ELSE
    LET o1 == [o EXCEPT !.m_read_beta = TRUE]
        rows == [i \in I |->
                   Product([j \in I |->
                     TableCell(RMul(o.alpha, o.beta[j]), tc[i][j])])]
    IN  {IF \E i \in I, j \in I : mm[i][j] = Raised
           THEN Raise(o1, "FloatingPointError")
           ELSE [o1 EXCEPT !.m = mm, !.wrote = @ \cup {"m"}]
         : mm \in Product(rows)}

HMM_resample_beta(o, mm) ==
  LET param == [j \in I |->
                  RAdd(RAdd(RDiv(o.gamma, RInt(state_dim)),
                            RInt(ColSum(mm, j))), Floor)]
      o1 == [o EXCEPT !.beta_m = mm]
  IN  IF \E j \in I : RLe(param[j], RZero)
        THEN {Raise(o1, "ValueError")}
        ELSE {[o1 EXCEPT !.beta = d, !.wrote = @ \cup {"beta"}]
              : d \in dirichlet(param)}

\* rows divided by their sums, in real numbers
Quotient(M) ==
  [i \in I |-> [j \in I |-> RDiv(M[i][j], RRowSum(M, i))]]

\* the rounding error of a row of quotients, as seen in its sum
Ulp == R(1, 1000)

\* the rounding of the division of M by its row sums in IEEE doubles: per
\* row the amount, in Ulp, by which the sum of the quotients misses 1.  0/s
\* is 0 and x/x is 1 exactly, so a row with fewer than two nonzero entries
\* has no error.
RoundOffs(M) ==
  {e \in [I -> {0 - 1, 0, 1}] :
     /\ \A i \in I :
          Cardinality({j \in I : M[i][j] # RZero}) < 2 => e[i] = 0
     /\ Cardinality({i \in I : e[i] # 0}) <= MaxRounded}

\* the quotients with the error e[i] of row i carried by its first nonzero
\* entry
Rounded(Q, e) ==
  [i \in I |-> [j \in I |->
     IF Q[i][j] # RZero /\ \A k \in 0 .. (j - 1) : Q[i][k] = RZero
       THEN RAdd(Q[i][j], RMul(RInt(e[i]), Ulp))
       ELSE Q[i][j]]]

\* M / M.sum(1)[:,na] in doubles (no row sum is 0): the matrices the division
\* can leave; a row sums to 1, or misses 1 by the rounding error
RowNormalized(M) == {Rounded(Quotient(M), e) : e \in RoundOffs(M)}

HMM_resample_A(o, counts) ==
  IF o.beta = None THEN {Raise(o, "AttributeError")}
  ELSE
    LET shape == [i \in I |-> [j \in I |->
                    RAdd(RAdd(RMul(o.alpha, o.beta[j]), counts[i][j]), Floor)]]
        o1 == [o EXCEPT !.A_arg = counts]
    IN  IF \E i \in I, j \in I : RLe(shape[i][j], RZero)
          THEN {Raise(o1, "ValueError")}
          ELSE UNION {{[o1 EXCEPT !.rvs = g, !.A = a, !.wrote = @ \cup {"A"}]
                       : a \in RowNormalized(g)}
                      : g \in gamma_rvs(shape)}

(* ------------------------- LTRHDPHMMTransitions ----------------------- *)

\* one pass of the loop of LTRHDPHMMTransitions._count_transitions: row i of
\* the lower triangle is overwritten in place, in the array self.trans_counts
\* names too
LTR_count_row(o, i, totalfrom, totalweight) ==
  LET low == RSumUpTo(o.fullA[i], i - 1)
  IN  UNION {
        IF tot = Raised THEN {Raise(o, "ValueError")}
        ELSE IF i > 0 /\ low = RZero THEN {Raise(o, "FloatingPointError")}
        ELSE {[o EXCEPT !.trans_counts[i] =
                 [j \in I |-> IF j < i THEN c[j] ELSE @[j]]]
              : c \in multinomial(tot,
                        [j \in 0 .. (i - 1) |-> RDiv(o.fullA[i][j], low)], i)}
        : tot \in geometric_sum(totalweight[i], totalfrom[i])}

RECURSIVE LTR_count_rows(_, _, _, _)
LTR_count_rows(S, i, totalfrom, totalweight) ==
  IF i = state_dim THEN S
  ELSE LTR_count_rows(
         Then(S, LAMBDA o : LTR_count_row(o, i, totalfrom, totalweight)),
         i + 1, totalfrom, totalweight)

\* LTR_count_transitions without its assertion
LTR_count_transitions_unchecked(o, states_list) ==
  Then(HMM_count_transitions(o, states_list), LAMBDA o1 :
    IF o1.fullA = None
      THEN {Raise(o1, "AttributeError")}
    ELSE LTR_count_rows({o1}, 0,
           [i \in I |-> RowSum(o1.trans_counts, i)],
           [i \in I |-> RRowSum(triu(o1.fullA), i)]))

LTR_count_transitions(o, states_list) ==
  Then(HMM_count_transitions(o, states_list), LAMBDA o1 :
    IF \E i \in I, j \in I : j < i /\ o1.trans_counts[i][j] # 0
      THEN {Raise(o1, "AssertionError")}
    ELSE IF o1.fullA = None
      THEN {Raise(o1, "AttributeError")}
    ELSE LTR_count_rows({o1}, 0,
           [i \in I |-> RowSum(o1.trans_counts, i)],
           [i \in I |-> RRowSum(triu(o1.fullA), i)]))

(* ------------------------ StickyHDPHMMTransitions --------------------- *)

\* data + np.diag(self.kappa * np.ones(data.shape[0]))
PlusKappa(o, data) ==
  [i \in I |-> [j \in I |->
     IF i = j THEN RAdd(data[i][j], o.kappa) ELSE data[i][j]]]

\* newm.flat[::n+1] is a copy of the diagonal of newm, so the binomial draw
\* assigned into newm.flat[::n+1][indices] is lost: newm stays the copy of m
Sticky_resample_beta(o, mm) ==
  LET indices == {i \in I : mm[i][i] # 0}
      den(i) == RAdd(RMul(o.beta[i], o.alpha), o.kappa)
      finish(o1) == HMM_resample_beta(
                      [o1 EXCEPT !.newm = mm, !.wrote = @ \cup {"newm"}], mm)
  IN  IF Total(mm) > 0
        THEN IF o.beta = None THEN {Raise(o, "AttributeError")}
             ELSE IF \E i \in indices : den(i) = RZero
               THEN {Raise(o, "FloatingPointError")}
             ELSE UNION {finish([o EXCEPT !.binom = draw])
                    : draw \in Product([i \in I |->
                        IF i \in indices
                          THEN binomial(mm[i][i],
                                 RDiv(RMul(o.beta[i], o.alpha), den(i)))
                          ELSE {mm[i][i]}])}
        ELSE finish(o)

Sticky_resample_A(o, data) == HMM_resample_A(o, PlusKappa(o, data))

\* LTR_resample_A with fullA taken after the truncation
LTR_resample_A_late(o, tc) ==
  Then(IF o.variant = "StickyLTR" THEN Sticky_resample_A(o, tc)
                                  ELSE HMM_resample_A(o, tc),
       LAMBDA o1 :
         {[o1 EXCEPT !.fullA = a, !.A = a, !.wrote = @ \cup {"fullA"}]
          : a \in RowNormalized(triu(o1.A))})

\* LTRHDPHMMTransitions._resample_A; its super() is the next class of the
\* method resolution order: StickyHDPHMMTransitions for the sticky
\* left-to-right class, HDPHMMTransitions for the plain one
LTR_resample_A(o, tc) ==
  Then(IF o.variant = "StickyLTR" THEN Sticky_resample_A(o, tc)
                                  ELSE HMM_resample_A(o, tc),
       LAMBDA o1 :
         IF \E i \in I : RRowSum(triu(o1.A), i) = RZero
           THEN {Raise([o1 EXCEPT !.fullA = o1.A,
                                  !.wrote = @ \cup {"fullA"}],
                       "FloatingPointError")}
           ELSE {[o1 EXCEPT !.fullA = o1.A, !.A = a,
                            !.wrote = @ \cup {"fullA"}]
                 : a \in RowNormalized(triu(o1.A))})

StickyLTR_resample_A(o, data) == LTR_resample_A(o, PlusKappa(o, data))

(* -------------------------- HDPHSMMTransitions ------------------------ *)

\* trans_counts + np.diag(d)
PlusDiag(tc, d) ==
  [i \in I |-> [j \in I |-> IF i = j THEN tc[i][j] + d[i] ELSE tc[i][j]]]

\* HSMM_augment_data with the geometric draws made on pi_ii, the probability
\* of staying, instead of 1 - pi_ii
HSMM_augment_data_stay(o, tc) ==
  LET store(aug) == [o EXCEPT !.trans_counts = aug,
                              !.wrote = @ \cup {"augmented"}]
      froms == [i \in I |-> RowSum(tc, i)]
  IN  IF Total(tc) > 0
        THEN IF o.fullA = None THEN {Raise(o, "AttributeError")}
             ELSE {IF \E i \in I : d[i] = Raised
                     THEN Raise(o, "ValueError")
                     ELSE store(PlusDiag(tc, d))
                   : d \in Product([i \in I |->
                       IF froms[i] > 0
                         THEN geometric_sum(o.fullA[i][i], froms[i])
                         ELSE {0}])}
        ELSE {store(tc)}

\* the augmentation works on a copy, which replaces the stored trans_counts
HSMM_augment_data(o, tc) ==
  LET store(aug) == [o EXCEPT !.trans_counts = aug,
                              !.wrote = @ \cup {"augmented"}]
      froms == [i \in I |-> RowSum(tc, i)]
  IN  IF Total(tc) > 0
        THEN IF o.fullA = None THEN {Raise(o, "AttributeError")}
             ELSE {IF \E i \in I : d[i] = Raised
                     THEN Raise(o, "ValueError")
                     ELSE store(PlusDiag(tc, d))
                   : d \in Product([i \in I |->
                       IF froms[i] > 0
                         THEN geometric_sum(RSub(ROne, o.fullA[i][i]),
                                            froms[i])
                         ELSE {0}])}
        ELSE {store(tc)}

\* self.A.flat[::n+1] = 0
ZeroDiagonal(M) ==
  [i \in I |-> [j \in I |-> IF i = j THEN RZero ELSE M[i][j]]]

\* HSMM_resample_A with fullA bound to the array of A instead of a copy: the
\* in-place zeroing and division reach fullA too
HSMM_resample_A_alias(o, augmented_data) ==
  Then(HMM_resample_A(o, augmented_data), LAMBDA o1 :
    {[o1 EXCEPT !.fullA = a, !.A = a, !.wrote = @ \cup {"fullA"}]
     : a \in RowNormalized(ZeroDiagonal(o1.A))})

HSMM_resample_A(o, augmented_data) ==
  Then(HMM_resample_A(o, augmented_data), LAMBDA o1 :
    LET full == o1.A
        zeroed == ZeroDiagonal(o1.A)
    IN  IF \E i \in I : RRowSum(zeroed, i) = RZero
          THEN {Raise([o1 EXCEPT !.fullA = full, !.A = zeroed,
                                 !.wrote = @ \cup {"fullA"}],
                      "FloatingPointError")}
          ELSE {[o1 EXCEPT !.fullA = full, !.A = a,
                           !.wrote = @ \cup {"fullA"}]
                : a \in RowNormalized(zeroed)})

(* ------------------------- the methods by class ----------------------- *)

count_transitions(o, states_list) ==
  IF IsLTR(o.variant) THEN LTR_count_transitions(o, states_list)
                      ELSE HMM_count_transitions(o, states_list)

resample_beta(o, mm) ==
  IF IsSticky(o.variant) THEN Sticky_resample_beta(o, mm)
                         ELSE HMM_resample_beta(o, mm)

resample_A(o, data) ==
  CASE o.variant = "StickyLTR" -> StickyLTR_resample_A(o, data)
    [] o.variant = "LTR" -> LTR_resample_A(o, data)
    [] IsHSMM(o.variant) -> HSMM_resample_A(o, data)
    [] o.variant \in {"Sticky", "StickyConc"} -> Sticky_resample_A(o, data)
    [] OTHER -> HMM_resample_A(o, data)

\* HDPHMMTransitions.resample
HMM_resample(o, states_list) ==
  Then(Then(Then(count_transitions(o, states_list),
    LAMBDA o1 : HMM_get_m(o1, o1.trans_counts)),
    LAMBDA o2 : resample_beta(o2, o2.m)),
    LAMBDA o3 : resample_A(o3, AsReal(o3.trans_counts)))

\* HDPHSMMTransitions.resample
HSMM_resample(o, stateseqs) ==
  LET states_noreps == [q \in 1 .. Len(stateseqs) |-> rle(stateseqs[q])]
  IN  Then(Then(Then(Then(count_transitions(o, states_noreps),
        LAMBDA o1 : HSMM_augment_data(o1, o1.trans_counts)),
        LAMBDA o2 : HMM_get_m(o2, o2.trans_counts)),
        LAMBDA o3 : resample_beta(o3, o3.m)),
        LAMBDA o4 : resample_A(o4, AsReal(o4.trans_counts)))

(* ------------------------ ConcentrationResampling --------------------- *)

\* alpha_obj is resampled from the stored trans_counts and beta and alpha is
\* set; then gamma_obj is resampled from the stored m and gamma is set
Conc_resample(o) ==
  IF o.trans_counts = None \/ o.beta = None
    THEN {Raise(o, "AttributeError")}
    ELSE UNION {
      LET o1 == [o EXCEPT !.alpha_conc = ca,
                          !.alpha = RMul(ca, RInt(state_dim)),
                          !.wrote = @ \cup {"alpha"}]
      IN  IF o.m = None
            THEN {Raise(o1, "AttributeError")}
            ELSE {[o1 EXCEPT !.gamma_conc = cg,
                             !.gamma = RMul(cg, RInt(state_dim)),
                             !.conc_saw = [counts |-> o.trans_counts,
                                           weights |-> o.beta, m |-> o.m,
                                           fresh |-> o.wrote],
                             !.wrote = @ \cup {"gamma"}]
                  : cg \in GammaConcVals}
      : ca \in ConcVals}

\* the prior of rho (constructor arguments rho_a_0, rho_b_0)
rho_a_0 == 1
rho_b_0 == 1

\* StickyHDPHMMTransitionsConcResampling.resample after the two calls above
StickyConc_resample_rho(o) ==
  {[o EXCEPT !.rho = r,
             !.kappa = RMul(RMul(r, o.alpha_conc), RInt(state_dim)),
             !.wrote = @ \cup {"rho", "kappa"}]
   : r \in beta_rvs(rho_a_0 + Total(o.m) - Total(o.newm),
                    rho_b_0 + Total(o.newm))}

\* resample with the concentration resampler run before the update
resample_conc_first(o, states_list) ==
  CASE o.variant = "HMMConc" ->
         Then(Conc_resample(o), LAMBDA o1 : HMM_resample(o1, states_list))
    [] o.variant = "HSMMConc" ->
         Then(Conc_resample(o), LAMBDA o1 : HSMM_resample(o1, states_list))
    [] o.variant = "StickyConc" ->
         Then(Then(Conc_resample(o),
                   LAMBDA o1 : HMM_resample(o1, states_list)),
              StickyConc_resample_rho)
    [] o.variant = "HSMM" -> HSMM_resample(o, states_list)
    [] OTHER -> HMM_resample(o, states_list)

\* resample as the class of the object defines it
resample(o, states_list) ==
  CASE o.variant = "HMMConc" ->
         Then(HMM_resample(o, states_list), Conc_resample)
    [] o.variant = "HSMMConc" ->
         Then(HSMM_resample(o, states_list), Conc_resample)
    [] o.variant = "StickyConc" ->
         Then(Then(HMM_resample(o, states_list), Conc_resample),
              StickyConc_resample_rho)
    [] o.variant = "HSMM" -> HSMM_resample(o, states_list)
    [] OTHER -> HMM_resample(o, states_list)

(* ----------------------------- constructors --------------------------- *)

\* HDPHMMTransitions.__init__
HMM_init(o, a, g, seed_beta, seed_A) ==
  LET o1 == [o EXCEPT !.alpha = a, !.gamma = g,
                      !.wrote = @ \cup {"alpha", "gamma"}]
  IN  IF seed_A = None \/ seed_beta = None
        THEN resample(o1, <<>>)
        ELSE {[o1 EXCEPT !.A = seed_A, !.beta = seed_beta,
                         !.wrote = @ \cup {"A", "beta"}]}

\* HDPHSMMTransitions.__init__
HSMM_init(o, a, g, seed_beta, seed_A, seed_fullA) ==
  LET o1 == [o EXCEPT !.alpha = a, !.gamma = g,
                      !.wrote = @ \cup {"alpha", "gamma"}]
  IN  IF seed_A = None \/ seed_fullA = None \/ seed_beta = None
        THEN resample(o1, <<>>)
        ELSE {[o1 EXCEPT !.A = seed_A, !.beta = seed_beta,
                         !.fullA = seed_fullA,
                         !.wrote = @ \cup {"A", "beta", "fullA"}]}

\* StickyHDPHMMTransitions.__init__
Sticky_init(o, k, a, g, seed_beta, seed_A) ==
  HMM_init([o EXCEPT !.kappa = k, !.wrote = @ \cup {"kappa"}],
           a, g, seed_beta, seed_A)

\* ConcentrationResampling.__init__: the two DirGamma objects, each with a
\* concentration of its own
Conc_init(o) ==
  {[o EXCEPT !.alpha_conc = ca, !.gamma_conc = cg]
   : ca \in ConcVals, cg \in GammaConcVals}

HMMConc_init(o, seed_beta, seed_A) ==
  Then(Conc_init(o), LAMBDA o1 :
    HMM_init(o1, RMul(o1.alpha_conc, RInt(state_dim)),
             RMul(o1.gamma_conc, RInt(state_dim)), seed_beta, seed_A))

HSMMConc_init(o, seed_beta, seed_A, seed_fullA) ==
  Then(Conc_init(o), LAMBDA o1 :
    HSMM_init(o1, RMul(o1.alpha_conc, RInt(state_dim)),
              RMul(o1.gamma_conc, RInt(state_dim)),
              seed_beta, seed_A, seed_fullA))

StickyConc_init(o, seed_beta, seed_A) ==
  Then(Then({[o EXCEPT !.rho = r, !.wrote = @ \cup {"rho"}]
             : r \in beta_rvs(rho_a_0, rho_b_0)},
            Conc_init),
    LAMBDA o1 :
      Sticky_init(o1,
        RMul(RMul(o1.rho, o1.alpha_conc), RInt(state_dim)),
        RMul(RMul(RSub(ROne, o1.rho), o1.alpha_conc), RInt(state_dim)),
        RMul(o1.gamma_conc, RInt(state_dim)), seed_beta, seed_A))

\* the constructor of class v on the arguments args
construct(v, name, args) ==
  LET o == Enter(Blank(v), name)
  IN  CASE v \in {"HMM", "LTR"} ->
             HMM_init(o, args.alpha, args.gamma, args.beta, args.A)
        [] v = "HSMM" ->
             HSMM_init(o, args.alpha, args.gamma, args.beta, args.A,
                       args.fullA)
        [] v \in {"Sticky", "StickyLTR"} ->
             Sticky_init(o, args.kappa, args.alpha, args.gamma, args.beta,
                         args.A)
        [] v = "HMMConc" -> HMMConc_init(o, args.beta, args.A)
        [] v = "HSMMConc" ->
             HSMMConc_init(o, args.beta, args.A, args.fullA)
        [] v = "StickyConc" -> StickyConc_init(o, args.beta, args.A)

(* ------------------------------- inputs ------------------------------- *)

\* the values the callers pass for alpha, gamma and kappa
HyperVals == {ROne}

Uniform == [i \in I |-> [j \in I |-> R(1, state_dim)]]
Identity == [i \in I |-> [j \in I |-> IF i = j THEN ROne ELSE RZero]]

\* pre-seeded beta: the uniform vector, and one with all its mass on state 0
SeedBetas == {[j \in I |-> R(1, state_dim)],
              [j \in I |-> IF j = 0 THEN ROne ELSE RZero]}
\* pre-seeded A, of the shape the class keeps
SeedA(v) ==
  IF IsHSMM(v) THEN Quotient(ZeroDiagonal(Uniform))
  ELSE IF IsLTR(v) THEN Quotient(triu(Uniform))
  ELSE Uniform
\* pre-seeded fullA; Identity has self-transition probability exactly 1
SeedFullAs == {Uniform, Identity}

StateSeqs(len) == UNION {[1 .. n -> I] : n \in 0 .. len}
StatesLists(len) == UNION {[1 .. n -> StateSeqs(len)] : n \in 0 .. MaxSeqs}

(* ------------------------------- actions ------------------------------ *)

Set(o, ph) ==
  /\ phase' = ph
  /\ variant' = o.variant
  /\ alpha' = o.alpha /\ gamma' = o.gamma /\ kappa' = o.kappa /\ rho' = o.rho
  /\ alpha_conc' = o.alpha_conc /\ gamma_conc' = o.gamma_conc
  /\ beta' = o.beta /\ A' = o.A /\ fullA' = o.fullA
  /\ trans_counts' = o.trans_counts /\ m' = o.m /\ newm' = o.newm
  /\ op' = o.op /\ err' = o.err /\ wrote' = o.wrote /\ counted' = o.counted
  /\ m_read_beta' = o.m_read_beta /\ binom' = o.binom
  /\ beta_m' = o.beta_m /\ A_arg' = o.A_arg /\ rvs' = o.rvs
  /\ conc_saw' = o.conc_saw

\* no object exists yet
Init ==
  /\ phase = "new"
  /\ variant = "none"
  /\ alpha = None /\ gamma = None /\ kappa = None /\ rho = None
  /\ alpha_conc = None /\ gamma_conc = None
  /\ beta = None /\ A = None /\ fullA = None
  /\ trans_counts = None /\ m = None /\ newm = None
  /\ op = "none" /\ err = "none" /\ wrote = {} /\ counted = None
  /\ m_read_beta = FALSE /\ binom = None
  /\ beta_m = None /\ A_arg = None /\ rvs = None
  /\ conc_saw = None

\* an object of a class of VS is built without pre-seeded parameters
Construct(VS) ==
  /\ phase = "new"
  /\ \E v \in VS, a \in HyperVals, g \in HyperVals, k \in HyperVals :
       \E o \in construct(v, "construct",
                  [alpha |-> a, gamma |-> g, kappa |-> k, beta |-> None,
                   A |-> None, fullA |-> None]) :
         Set(o, IF o.err = "none" THEN "live" ELSE "dead")

\* an object of a class of VS is built on pre-seeded beta, A and (semi-Markov)
\* fullA
ConstructSeeded(VS) ==
  /\ phase = "new"
  /\ \E v \in VS, a \in HyperVals, g \in HyperVals, k \in HyperVals,
        sb \in SeedBetas, sf \in SeedFullAs :
       \E o \in construct(v, "construct_seeded",
                  [alpha |-> a, gamma |-> g, kappa |-> k, beta |-> sb,
                   A |-> SeedA(v), fullA |-> sf]) :
         Set(o, IF o.err = "none" THEN "live" ELSE "dead")

\* the caller assigns the attribute fullA of a left-to-right object, which no
\* constructor sets
AssignFullA ==
  /\ phase = "live" /\ IsLTR(variant) /\ fullA = None
  /\ Set([Enter(Self, "assign_fullA") EXCEPT !.fullA = Uniform,
                                             !.wrote = {"fullA"}], "live")

\* one sweep: resample(states_list), on sequences of at most len states
Resample(len) ==
  /\ phase = "live"
  /\ \E states_list \in StatesLists(len) :
       \E o \in resample(Enter(Self, "resample"), states_list) :
         Set(o, "live")

\* the base and the sticky model
Next == Construct({"HMM", "Sticky"}) \/ ConstructSeeded({"HMM", "Sticky"})
          \/ Resample(MaxLen)
Spec == Init /\ [][Next]_vars

\* construction alone, of every class
NextInit == Construct(Variants) \/ ConstructSeeded(Variants)
SpecInit == Init /\ [][NextInit]_vars

\* the semi-Markov models
NextHSMM == Construct({"HSMM", "HSMMConc"})
              \/ ConstructSeeded({"HSMM", "HSMMConc"}) \/ Resample(MaxLen)
SpecHSMM == Init /\ [][NextHSMM]_vars

\* the left-to-right models
NextLTR == Construct({"LTR", "StickyLTR"})
             \/ ConstructSeeded({"LTR", "StickyLTR"}) \/ AssignFullA
             \/ Resample(MaxLenLTR)
SpecLTR == Init /\ [][NextLTR]_vars

\* the concentration-coupled models
NextConc == Construct({"HMMConc", "HSMMConc", "StickyConc"})
              \/ ConstructSeeded({"HMMConc", "HSMMConc", "StickyConc"})
              \/ Resample(MaxLen)
SpecConc == Init /\ [][NextConc]_vars

(* ------------------------------- claims ------------------------------- *)

Completed(name) == phase = "live" /\ op = name /\ err = "none"

\* C1: for every class, construction without pre-seeded parameters completes
\* through the default resample and leaves beta, A and, where the class has
\* it, fullA defined: no attribute is read before it is assigned.
C1_ConstructionCompletes ==
  op = "construct" =>
    /\ err = "none" /\ phase = "live"
    /\ beta # None /\ A # None
    /\ (IsLTR(variant) \/ IsHSMM(variant)) => fullA # None

\* C2: semi-Markov model: after the default resample at construction and
\* after every completed resample call the diagonal of A is exactly 0, and
\* fullA is the row-normalized matrix of the Gamma variates of that call,
\* diagonal included; A is fullA with its diagonal zeroed, renormalized.
C2_SemiMarkovDiagonal ==
  (IsHSMM(variant) /\ (Completed("construct") \/ Completed("resample"))) =>
    /\ \A i \in I : A[i][i] = RZero
    /\ fullA \in RowNormalized(rvs)
    /\ A \in RowNormalized(ZeroDiagonal(fullA))

C2_Witness ==
  /\ IsHSMM(variant) /\ Completed("resample")
  /\ trans_counts # Zeros
  /\ \E i \in I : /\ fullA[i][i] # RZero /\ A[i][i] = RZero
                    /\ RLt(ROne, RRowSum(fullA, i))

\* C3: left-to-right model: after every resample call that completes, the
\* strictly-lower triangle of A is exactly 0, and fullA is the unconstrained
\* row-normalized matrix of the Gamma variates of that same call; A is the
\* upper-triangular part of that fullA, row-renormalized.
C3_LeftToRightTriangle ==
  (IsLTR(variant) /\ Completed("resample")) =>
    /\ \A i \in I, j \in I : j < i => A[i][j] = RZero
    /\ "fullA" \in wrote
    /\ fullA \in RowNormalized(rvs)
    /\ A \in RowNormalized(triu(fullA))

C3_Witness ==
  /\ IsLTR(variant) /\ Completed("resample")
  /\ trans_counts # Zeros
  /\ \E i \in I, j \in I : j < i /\ fullA[i][j] # RZero /\ A[i][j] = RZero

\* the counts hold a backward transition
Backward(tc) == \E i \in I, j \in I : j < i /\ tc[i][j] # 0

\* a step that is a resample call of a left-to-right object on an input with
\* a backward transition
BackwardCall ==
  phase = "live" /\ IsLTR(variant) /\ op' = "resample" /\ Backward(counted')

\* the object has been through a complete sweep before
Swept == m # None

\* C4: a left-to-right resample call on an input with a backward
\* transition fails with the assertion and leaves the state of the previous
\* sweep: beta, A, fullA, the stored trans_counts, m and the hyperparameters
\* exactly as they were.
C4_FailedCallKeepsAll ==
  [][(BackwardCall /\ Swept) =>
       /\ err' = "AssertionError"
       /\ beta' = beta /\ A' = A /\ fullA' = fullA
       /\ trans_counts' = trans_counts /\ m' = m
       /\ alpha' = alpha /\ gamma' = gamma /\ kappa' = kappa]_vars

\* C4 amended: the call fails with the assertion and leaves beta, A, fullA, m
\* and the hyperparameters as they were; the stored trans_counts has been
\* overwritten with the raw counts of the rejected input.
C4_FailedCallKeepsAllButCounts ==
  [][BackwardCall =>
       /\ err' = "AssertionError"
       /\ beta' = beta /\ A' = A /\ fullA' = fullA /\ m' = m
       /\ newm' = newm
       /\ alpha' = alpha /\ gamma' = gamma /\ kappa' = kappa
       /\ trans_counts' = counted' /\ wrote' = {"trans_counts"}]_vars

C4_Witness ==
  /\ IsLTR(variant) /\ op = "resample" /\ err = "AssertionError"
  /\ Backward(counted) /\ trans_counts = counted
  /\ fullA # None /\ m # None /\ m # Zeros

\* C5: sticky concentration-coupled model: after construction and after
\* every resample call, alpha = (1-rho)*concentration*L and
\* kappa = rho*concentration*L for the current rho and concentration.
C5_AlphaKappaSplit ==
  (variant = "StickyConc" /\ phase = "live" /\ err = "none") =>
    /\ alpha = RMul(RMul(RSub(ROne, rho), alpha_conc), RInt(state_dim))
    /\ kappa = RMul(RMul(rho, alpha_conc), RInt(state_dim))

\* C6: concentration-coupled models: in every resample call, the one of the
\* construction included, the transition-model update runs first and the
\* concentration resampler after it, and the trans_counts (augmented, for the
\* semi-Markov model), m and beta the resampler reads are the ones that same
\* call wrote.
C6_ConcentrationAfterUpdate ==
  (IsConc(variant) /\ op \in {"construct", "resample"}) =>
    /\ op = "construct" => err = "none"
    /\ err # "none" => conc_saw = None /\ err # "AttributeError"
    /\ err = "none" =>
         /\ conc_saw # None
         /\ {"trans_counts", "m", "beta", "A"} \subseteq conc_saw.fresh
         /\ IsHSMM(variant) => {"augmented", "fullA"} \subseteq conc_saw.fresh
         /\ op = "resample" =>
              conc_saw.fresh \cap {"alpha", "gamma", "rho", "kappa"} = {}
         /\ conc_saw.counts = trans_counts
         /\ conc_saw.m = m
         /\ conc_saw.weights = beta

C6_Witness ==
  /\ variant = "HSMMConc" /\ Completed("resample")
  /\ conc_saw # None /\ conc_saw.counts # Zeros
  /\ conc_saw.counts # counted

\* C7: sticky left-to-right model: the counts matrix that reaches the base
\* Gamma row resampling has kappa added to every diagonal entry exactly once.
C7_KappaAddedOnce ==
  (variant = "StickyLTR" /\ op = "resample" /\ A_arg # None) =>
    \A i \in I, j \in I :
      A_arg[i][j] = IF i = j THEN RAdd(RInt(trans_counts[i][j]), kappa)
                             ELSE RInt(trans_counts[i][j])

\* C8: sticky beta step: newm equals m off the diagonal and where m_ii = 0,
\* newm_ii is the value of the Binomial draw where m_ii > 0, beta is
\* resampled from newm, and m is left unchanged.
C8_NewmHoldsBinomialDraw ==
  (IsSticky(variant) /\ op = "resample" /\ "newm" \in wrote) =>
    /\ \A i \in I, j \in I : (i # j \/ m[i][i] = 0) => newm[i][j] = m[i][j]
    /\ \A i \in I : m[i][i] > 0 => newm[i][i] = binom[i]
    /\ beta_m = newm

\* C9: table counts: 0 <= m[i][j] <= trans_counts[i][j], and m[i][j] = 0
\* exactly when trans_counts[i][j] = 0; with all-zero counts m is the zero
\* matrix and beta is not read.
C9_TableCounts ==
  /\ (op \in {"construct", "resample"} /\ "m" \in wrote) =>
       \A i \in I, j \in I :
         /\ 0 <= m[i][j] /\ m[i][j] <= trans_counts[i][j]
         /\ m[i][j] = 0 <=> trans_counts[i][j] = 0
  /\ (op \in {"construct", "resample"} /\ "trans_counts" \in wrote
        /\ trans_counts = Zeros) =>
       "m" \in wrote /\ m = Zeros /\ ~m_read_beta

C9_Witness ==
  /\ Completed("resample") /\ m_read_beta
  /\ \E i \in I, j \in I : trans_counts[i][j] = 2 /\ m[i][j] = 1
  /\ \E i \in I, j \in I : trans_counts[i][j] = 0 /\ m[i][j] = 0

\* a step that is a resample call of a semi-Markov object
SemiMarkovCall == phase = "live" /\ IsHSMM(variant) /\ op' = "resample"

\* what the augmentation of that call added to diagonal entry i
Added(i) == trans_counts'[i][i] - counted'[i][i]

=============================================================================
